---- MODULE Spec2Model ----
(***************************************************************************)
(* Model of backend/server.py: the group / membership / offer / vote       *)
(* handlers of the group-buying backend, as concurrent requests against    *)
(* the MongoDB collections.  Every `await db.<collection>.<call>` of a     *)
(* handler is one atomic step; the event loop may switch to another        *)
(* request at each await, so the steps of different requests interleave.   *)
(***************************************************************************)
EXTENDS Integers, FiniteSets, Sequences, TLC

\* ---------------------------------------------------------------- bounds
NumProcs == 2         \* requests that may be in flight at the same time
NumUsers == 2         \* authenticated ordinary users
MaxCapacity == 2      \* largest max_members a create_group request carries
MaxTargetGid == 1     \* requests address the group ids 1..MaxTargetGid
MaxCreates == 1       \* create_group requests served
MaxPays == 2          \* pay_for_group requests served
MaxJoins == 3         \* join_group requests served
MaxOffers == 2        \* create_dealer_offer requests served
MaxSeeds == 1         \* seed_initial_data requests served
MaxSaves == 2         \* save_car_preference requests served
MaxChoice == 2        \* car models, variants and prices a request may name
MaxVotes == 3         \* vote_for_offer requests served

\* the on_road_price boundaries of the payment tiers: 10, 20 and 30 lakhs
Lakh10 == 1000000
Lakh20 == 2000000
Lakh30 == 3000000

Procs == 1..NumProcs
Users == 1..NumUsers
TargetGids == 1..MaxTargetGid
OfferIds == 1..MaxOffers
\* max_members is a plain int of GroupCreate: no validation rejects 0 or less
CapacityInputs == {-1, 0} \cup (1..MaxCapacity)
Brands == {"Tata", "Other"}

\* ------------------------------------------------------- program constants
\* sample_groups of seed_initial_data: brand, max_members, current_members
SampleGroups ==
    << [brand |-> "Tata",       max |-> 50, cm |-> 32],
       [brand |-> "Mahindra",   max |-> 50, cm |-> 41],
       [brand |-> "Kia",        max |-> 50, cm |-> 28],
       [brand |-> "Hyundai",    max |-> 50, cm |-> 35],
       [brand |-> "Honda",      max |-> 50, cm |-> 29],
       [brand |-> "Maruti",     max |-> 50, cm |-> 44],
       [brand |-> "Volkswagen", max |-> 50, cm |-> 22],
       [brand |-> "Toyota",     max |-> 50, cm |-> 38] >>

\* Group.status, in lifecycle order
StatusRank(s) ==
    CASE s = "forming" -> 0
      [] s = "locked" -> 1
      [] s = "negotiation" -> 2
      [] s = "completed" -> 3

\* Group(**group_data.model_dump()): the defaults of the Group model.
\* by is history, not a field of the document: the handler that wrote it.
NewGroup(brand, max, by) ==
    [brand |-> brand, max |-> max, cm |-> 0, status |-> "forming", by |-> by]

VARIABLES
    groups,      \* db.groups: id -> [brand, max, cm, status] (and by)
    nextGid,     \* the next fresh group id (uuid4)
    payments,    \* db.payments: the records of each <<user, group>>
    members,     \* db.group_members: number of records per <<group, user>>
    prefs,       \* db.car_preferences: the records of each <<user, group>>
    offers,      \* db.dealer_offers: id -> [g, votes]
    votes,       \* db.votes: id -> [u, o]; the group is the offer's
    nextVid,     \* the next fresh vote id (uuid4)
    proc,        \* the request each slot is serving, its position and locals
    used         \* requests served so far, per handler

vars == <<groups, nextGid, payments, members, prefs, offers, votes, nextVid,
          proc, used>>

db == <<groups, nextGid, payments, members, prefs, offers, votes, nextVid>>

\* History kept with a request, read by no handler:
\*   snap          (vote) see below
\*   left, nm, ov  (join) the free slots of the group and whether the user
\*                 was no member of it when the request arrived, and the slots
\*                 whose join requests for the same group were in flight
\*                 while this one was
\* what a vote request found when it arrived: every offer's tally and the
\* offers the user's Vote records pointed at.  ok is dropped as soon as
\* another request writes a tally or a Vote record (history only: no handler
\* reads it).
NoSnap == [ok |-> FALSE, tally |-> << >>, mine |-> << >>]

\* the choice fields of CarPreferenceCreate, PaymentCreate and CarPreference
Transmissions == {"Manual", "Automatic"}
Choices ==
    [model : 1..MaxChoice, variant : 1..MaxChoice, trans : Transmissions,
     price : 1..MaxChoice]
NoChoice == [model |-> 0, variant |-> 0, trans |-> "none", price |-> 0]
\* the choice declared with a payment (pay_for_group requests all carry it)
PayChoice == [model |-> 1, variant |-> 1, trans |-> "Manual", price |-> 1]
\* save_car_preference requests served per <<user, group>>: none yet
NoSaves == [k \in Users \X TargetGids |-> 0]

Idle ==
    [op |-> "none", pc |-> "done", u |-> 0, g |-> 0, o |-> 0,
     cm |-> 0, mx |-> 0, st |-> "none", mc |-> 0, ev |-> 0, eo |-> 0, i |-> 0,
     view |-> << >>, res |-> "none", ret |-> 0, snap |-> NoSnap,
     left |-> 0, nm |-> FALSE, ov |-> {}, had |-> FALSE,
     nth |-> 0, ch |-> NoChoice]

Init ==
    /\ groups = << >>
    /\ nextGid = 1
    /\ payments = [k \in Users \X TargetGids |-> << >>]
    /\ members = [k \in TargetGids \X Users |-> 0]
    /\ prefs = [k \in Users \X TargetGids |-> << >>]
    /\ offers = << >>
    /\ votes = << >>
    /\ nextVid = 1
    /\ proc = [p \in Procs |-> Idle]
    /\ used = [create |-> 0, pay |-> 0, join |-> 0, offer |-> 0, seed |-> 0,
               vote |-> 0, save |-> NoSaves]

\* a slot is free once its request has returned
Free(p) == proc[p].pc = "done"

\* the request of slot p returns: its locals are dropped, the response kept
Return(p, op, u, g, o, res, ret) ==
    proc' = [proc EXCEPT ![p] =
                [Idle EXCEPT !.op = op, !.u = u, !.g = g, !.o = o,
                             !.res = res, !.ret = ret]]

Goto(p, pc) == proc' = [proc EXCEPT ![p].pc = pc]

Finish(p, res, ret) ==
    proc' = [proc EXCEPT ![p] =
                [Idle EXCEPT !.op = proc[p].op, !.u = proc[p].u, !.g = proc[p].g,
                             !.o = proc[p].o, !.res = res, !.ret = ret,
                             !.left = proc[p].left, !.nm = proc[p].nm,
                             !.ov = proc[p].ov, !.had = proc[p].had,
                             !.nth = proc[p].nth, !.ch = proc[p].ch]]

\* ------------------------------------------------------------ create_group
\* POST /groups: one insert, no validation of max_members
create_group(p) ==
    /\ Free(p)
    /\ used.create < MaxCreates
    /\ \E u \in Users, b \in Brands, m \in CapacityInputs :
         /\ groups' = (nextGid :> NewGroup(b, m, "create_group")) @@ groups
         /\ Return(p, "create_group", u, nextGid, 0, "ok", 0)
    /\ nextGid' = nextGid + 1
    /\ used' = [used EXCEPT !.create = @ + 1]
    /\ UNCHANGED <<payments, members, prefs, offers, votes, nextVid>>

\* ----------------------------------------------------------- pay_for_group
\* tiers whose upper boundaries belong to the next tier
PaymentAmountExclusive(price) ==
    IF price < Lakh10 THEN 1000
    ELSE IF price < Lakh20 THEN 2000
    ELSE IF price < Lakh30 THEN 3000
    ELSE 5000

\* the tiers of pay_for_group: amount by on_road_price
PaymentAmount(price) ==
    IF price <= Lakh10 THEN 1000
    ELSE IF price <= Lakh20 THEN 2000
    ELSE IF price <= Lakh30 THEN 3000
    ELSE 5000

\* Payment(user_id, group_id, amount, car_model, variant, transmission,
\* on_road_price) for the choice c of the request
NewPayment(c) ==
    [model |-> c.model, variant |-> c.variant, trans |-> c.trans,
     price |-> c.price, amount |-> PaymentAmount(c.price)]
\* the choice fields of a stored Payment
ChoiceOf(payment) ==
    [model |-> payment.model, variant |-> payment.variant,
     trans |-> payment.trans, price |-> payment.price]

\* find_one(groups): 404 when the group is absent; the request carries one
\* of the choices C
pay_request(p, C) ==
    /\ Free(p)
    /\ used.pay < MaxPays
    /\ used' = [used EXCEPT !.pay = @ + 1]
    /\ \E u \in Users, g \in TargetGids, c \in C :
         IF g \in DOMAIN groups
         THEN proc' = [proc EXCEPT ![p] =
                         [Idle EXCEPT !.op = "pay", !.pc = "pay_find_payment",
                                      !.u = u, !.g = g, !.ch = c,
                                      !.had = (payments[<<u, g>>] # << >>)]]
         ELSE Return(p, "pay", u, g, 0, "NotFound", 0)
    /\ UNCHANGED db

pay_find_group(p) == pay_request(p, {PayChoice})

\* pay_for_group requests that declare a price at or next to a tier boundary
PriceInputs ==
    {0, Lakh10 - 1, Lakh10, Lakh10 + 1, Lakh20, Lakh20 + 1, Lakh30, Lakh30 + 1}
PricedChoices == {[PayChoice EXCEPT !.price = x] : x \in PriceInputs}
pay_priced(p) == pay_request(p, PricedChoices)

\* pay_for_group without its existing-payment check
pay_find_payment_unchecked(p) ==
    /\ proc[p].pc = "pay_find_payment"
    /\ Goto(p, "pay_insert")
    /\ UNCHANGED <<db, used>>

\* find_one(payments): 400 when the user already paid for the group
pay_find_payment(p) ==
    /\ proc[p].pc = "pay_find_payment"
    /\ IF payments[<<proc[p].u, proc[p].g>>] # << >>
       THEN Finish(p, "AlreadyPaid", 0)
       ELSE Goto(p, "pay_insert")
    /\ UNCHANGED <<db, used>>

\* insert_one(payments); the response carries the amount
pay_insert(p) ==
    /\ proc[p].pc = "pay_insert"
    /\ payments' = [payments EXCEPT ![<<proc[p].u, proc[p].g>>] =
                                       Append(@, NewPayment(proc[p].ch))]
    /\ Finish(p, "ok", PaymentAmount(proc[p].ch.price))
    /\ UNCHANGED <<groups, nextGid, members, prefs, offers, votes, nextVid, used>>

\* -------------------------------------------------------------- join_group
\* history: the slots serving a join request for group g, and g's free slots
JoinsInFlight(g) ==
    {q \in Procs : proc[q].op = "join" /\ proc[q].pc # "done" /\ proc[q].g = g}
SlotsLeft(g) ==
    IF g \in DOMAIN groups THEN groups[g].max - groups[g].cm ELSE 0

\* join_group without its payment check
join_find_payment_unchecked(p) ==
    /\ Free(p)
    /\ used.join < MaxJoins
    /\ used' = [used EXCEPT !.join = @ + 1]
    /\ \E u \in Users, g \in TargetGids :
         proc' = [proc EXCEPT ![p] =
                     [Idle EXCEPT !.op = "join", !.pc = "join_find_group",
                                  !.u = u, !.g = g]]
    /\ UNCHANGED db

\* find_one(payments): 403 when the user has not paid for the group; any one
\* of the user's Payment records of the group otherwise
join_find_payment(p) ==
    /\ Free(p)
    /\ used.join < MaxJoins
    /\ used' = [used EXCEPT !.join = @ + 1]
    /\ \E u \in Users, g \in TargetGids :
         IF payments[<<u, g>>] # << >>
         THEN \E i \in 1..Len(payments[<<u, g>>]) :
              LET inflight == JoinsInFlight(g) \ {p} IN
              proc' = [q \in Procs |->
                         IF q = p
                         THEN [Idle EXCEPT !.op = "join", !.pc = "join_find_group",
                                           !.u = u, !.g = g,
                                           !.ch = ChoiceOf(payments[<<u, g>>][i]),
                                           !.left = SlotsLeft(g),
                                           !.nm = (members[<<g, u>>] = 0),
                                           !.ov = inflight]
                         ELSE IF q \in inflight
                         THEN [proc[q] EXCEPT !.ov = @ \cup {p}]
                         ELSE proc[q]]
         ELSE Return(p, "join", u, g, 0, "PaymentRequired", 0)
    /\ UNCHANGED db

\* find_one(groups): 404 when absent, 400 when the copy just read is full
join_find_group(p) ==
    /\ proc[p].pc = "join_find_group"
    /\ LET g == proc[p].g IN
         IF g \notin DOMAIN groups
         THEN Finish(p, "NotFound", 0)
         ELSE IF groups[g].cm >= groups[g].max
         THEN Finish(p, "GroupFull", 0)
         ELSE proc' = [proc EXCEPT ![p].pc = "join_find_member",
                                   ![p].cm = groups[g].cm,
                                   ![p].mx = groups[g].max]
    /\ UNCHANGED <<db, used>>

\* join_group inserting the Membership before it looks for an existing one
join_find_member_after_insert(p) ==
    /\ proc[p].pc = "join_find_member"
    /\ members' = [members EXCEPT ![<<proc[p].g, proc[p].u>>] = @ + 1]
    /\ IF members[<<proc[p].g, proc[p].u>>] > 0
       THEN Finish(p, "AlreadyMember", 0)
       ELSE Goto(p, "join_insert_pref")
    /\ UNCHANGED <<groups, nextGid, payments, prefs, offers, votes, nextVid, used>>

\* find_one(group_members): 400 when the user is already a member
join_find_member(p) ==
    /\ proc[p].pc = "join_find_member"
    /\ IF members[<<proc[p].g, proc[p].u>>] > 0
       THEN Finish(p, "AlreadyMember", 0)
       ELSE Goto(p, "join_insert_member")
    /\ UNCHANGED <<db, used>>

\* insert_one(group_members)
join_insert_member(p) ==
    /\ proc[p].pc = "join_insert_member"
    /\ members' = [members EXCEPT ![<<proc[p].g, proc[p].u>>] = @ + 1]
    /\ Goto(p, "join_insert_pref")
    /\ UNCHANGED <<groups, nextGid, payments, prefs, offers, votes, nextVid, used>>

\* insert_one(car_preferences), with the choice of the payment read earlier
join_insert_pref(p) ==
    /\ proc[p].pc = "join_insert_pref"
    /\ prefs' = [prefs EXCEPT ![<<proc[p].u, proc[p].g>>] = Append(@, proc[p].ch)]
    /\ Goto(p, "join_update_group")
    /\ UNCHANGED <<groups, nextGid, payments, members, offers, votes, nextVid, used>>

\* an update_data that counts the member and never locks
JoinUpdateNoLock(grp, cm, mx) == [grp EXCEPT !.cm = cm + 1]

\* update_data of join_group, from the copy of the group read earlier
JoinUpdate(grp, cm, mx) ==
    IF cm + 1 >= mx
    THEN [grp EXCEPT !.cm = cm + 1, !.status = "locked"]
    ELSE [grp EXCEPT !.cm = cm + 1]

\* update_one(groups, $set update_data); returns new_count
join_update_group(p) ==
    /\ proc[p].pc = "join_update_group"
    /\ LET g == proc[p].g IN
         groups' = IF g \in DOMAIN groups
                   THEN [groups EXCEPT ![g] = JoinUpdate(@, proc[p].cm, proc[p].mx)]
                   ELSE groups
    /\ Finish(p, "ok", proc[p].cm + 1)
    /\ UNCHANGED <<nextGid, payments, members, prefs, offers, votes, nextVid, used>>

\* ------------------------------------------------------ create_dealer_offer
\* create_dealer_offer turning away forming groups only
offer_find_group_not_forming(p) ==
    /\ Free(p)
    /\ used.offer < MaxOffers
    /\ used' = [used EXCEPT !.offer = @ + 1]
    /\ \E g \in TargetGids :
         IF g \notin DOMAIN groups
         THEN Return(p, "create_offer", 0, g, 0, "NotFound", 0)
         ELSE IF groups[g].status = "forming"
         THEN Return(p, "create_offer", 0, g, 0, "InvalidState", 0)
         ELSE proc' = [proc EXCEPT ![p] =
                         [Idle EXCEPT !.op = "create_offer", !.pc = "offer_insert",
                                      !.g = g]]
    /\ UNCHANGED db

\* find_one(groups): 404 when absent, 400 unless the status read is locked
offer_find_group(p) ==
    /\ Free(p)
    /\ used.offer < MaxOffers
    /\ used' = [used EXCEPT !.offer = @ + 1]
    /\ \E g \in TargetGids :
         IF g \notin DOMAIN groups
         THEN Return(p, "create_offer", 0, g, 0, "NotFound", 0)
         ELSE IF groups[g].status # "locked"
         THEN Return(p, "create_offer", 0, g, 0, "InvalidState", 0)
         ELSE proc' = [proc EXCEPT ![p] =
                         [Idle EXCEPT !.op = "create_offer", !.pc = "offer_insert",
                                      !.g = g]]
    /\ UNCHANGED db

\* DealerOffer(group_id=..., **offer_data): votes defaults to 0
NewOffer(g) == [g |-> g, votes |-> 0]

\* create_dealer_offer losing its insert
offer_insert_dropped(p) ==
    /\ proc[p].pc = "offer_insert"
    /\ proc' = [proc EXCEPT ![p].pc = "offer_update_group",
                            ![p].o = Cardinality(DOMAIN offers) + 1]
    /\ UNCHANGED <<db, used>>

\* insert_one(dealer_offers)
offer_insert(p) ==
    /\ proc[p].pc = "offer_insert"
    /\ LET o == Cardinality(DOMAIN offers) + 1 IN
         /\ offers' = (o :> NewOffer(proc[p].g)) @@ offers
         /\ proc' = [proc EXCEPT ![p].pc = "offer_update_group", ![p].o = o]
    /\ UNCHANGED <<groups, nextGid, payments, members, prefs, votes, nextVid, used>>

\* update_one(groups, $set status = negotiation)
offer_update_group(p) ==
    /\ proc[p].pc = "offer_update_group"
    /\ LET g == proc[p].g IN
         groups' = IF g \in DOMAIN groups
                   THEN [groups EXCEPT ![g].status = "negotiation"]
                   ELSE groups
    /\ Finish(p, "ok", 0)
    /\ UNCHANGED <<nextGid, payments, members, prefs, offers, votes, nextVid, used>>

\* ------------------------------------------------------- seed_initial_data
\* count_documents(groups): nothing is seeded when any group exists
seed_count(p) ==
    /\ Free(p)
    /\ used.seed < MaxSeeds
    /\ used' = [used EXCEPT !.seed = @ + 1]
    /\ IF DOMAIN groups # {}
       THEN Return(p, "seed", 0, 0, 0, "AlreadySeeded", 0)
       ELSE proc' = [proc EXCEPT ![p] =
                       [Idle EXCEPT !.op = "seed", !.pc = "seed_upsert", !.i = 1]]
    /\ UNCHANGED db

\* update_one({brand}, $set Group(**group_data).model_dump(), upsert=True):
\* $set carries every field of a new Group, its fresh id and the default
\* status included, so a group matched by brand is replaced, id and all.
seed_upsert(p) ==
    /\ proc[p].pc = "seed_upsert"
    /\ LET s == SampleGroups[proc[p].i]
           doc == [NewGroup(s.brand, s.max, "seed") EXCEPT !.cm = s.cm]
           hit == {g \in DOMAIN groups : groups[g].brand = s.brand}
       IN  IF hit = {}
           THEN groups' = (nextGid :> doc) @@ groups
           ELSE \E old \in hit :
                  groups' = [g \in (DOMAIN groups \ {old}) \cup {nextGid} |->
                                IF g = nextGid THEN doc ELSE groups[g]]
    /\ nextGid' = nextGid + 1
    /\ IF proc[p].i < Len(SampleGroups)
       THEN proc' = [proc EXCEPT ![p].i = @ + 1]
       ELSE Finish(p, "ok", 0)
    /\ UNCHANGED <<payments, members, prefs, offers, votes, nextVid, used>>

\* ------------------------------------------------------------ vote_for_offer
RECURSIVE SumOver(_, _)
SumOver(f, S) ==
    IF S = {} THEN 0
    ELSE LET x == CHOOSE y \in S : TRUE IN f[x] + SumOver(f, S \ {x})

\* the offers of group g, and the Vote records of group g (of user u)
OffersOf(g) == {o \in DOMAIN offers : offers[o].g = g}
VotesIn(g) == {v \in DOMAIN votes : votes[v].g = g}
VotesOf(u, g) == {v \in VotesIn(g) : votes[v].u = u}
Tallies == [o \in DOMAIN offers |-> offers[o].votes]

\* slot p takes a step that leaves the tallies and Vote records alone
Step(p, rec) == proc' = [proc EXCEPT ![p] = rec]

\* slot p writes a tally or a Vote record: the other requests are interfered
WriteStep(p, rec) ==
    proc' = [q \in Procs |->
                IF q = p THEN rec ELSE [proc[q] EXCEPT !.snap = NoSnap]]

\* find_one(dealer_offers): 404 when the offer is absent
vote_find_offer(p) ==
    /\ Free(p)
    /\ used.vote < MaxVotes
    /\ used' = [used EXCEPT !.vote = @ + 1]
    /\ \E u \in Users, o \in 1..(MaxOffers + 1) :
         IF o \notin DOMAIN offers
         THEN Return(p, "vote", u, 0, o, "NotFound", 0)
         ELSE LET g == offers[o].g IN
              Step(p, [Idle EXCEPT
                         !.op = "vote", !.pc = "vote_find_member",
                         !.u = u, !.g = g, !.o = o,
                         !.snap = [ok |-> TRUE, tally |-> Tallies,
                                   mine |-> [x \in OffersOf(g) |->
                                               Cardinality({v \in VotesOf(u, g) :
                                                              votes[v].o = x})]]])
    /\ UNCHANGED db

\* vote_for_offer without its membership check
vote_find_member_unchecked(p) ==
    /\ proc[p].pc = "vote_find_member"
    /\ Goto(p, "vote_find_vote")
    /\ UNCHANGED <<db, used>>

\* find_one(group_members): 403 unless the user is a member of the group
vote_find_member(p) ==
    /\ proc[p].pc = "vote_find_member"
    /\ IF members[<<proc[p].g, proc[p].u>>] = 0
       THEN Finish(p, "Forbidden", 0)
       ELSE Goto(p, "vote_find_vote")
    /\ UNCHANGED <<db, used>>

\* find_one(votes, {group_id, user_id}): any one of the user's Vote records
\* of the group (the store promises no order among several)
vote_find_vote(p) ==
    /\ proc[p].pc = "vote_find_vote"
    /\ LET mine == VotesOf(proc[p].u, proc[p].g) IN
         IF mine = {}
         THEN Goto(p, "vote_insert")
         ELSE \E v \in mine :
                proc' = [proc EXCEPT ![p].pc = "vote_dec_old",
                                     ![p].ev = v, ![p].eo = votes[v].o]
    /\ UNCHANGED <<db, used>>

\* a vote handler that adds one to the tally whichever way the vote moves
IncVotesAlwaysUp(offer, d) == [offer EXCEPT !.votes = @ + 1]

\* $inc votes by d: the store applies the increment to the stored tally
IncVotes(offer, d) == [offer EXCEPT !.votes = @ + d]

\* vote_for_offer leaving the old offer's tally as it is
vote_dec_old_skipped(p) ==
    /\ proc[p].pc = "vote_dec_old"
    /\ WriteStep(p, [proc[p] EXCEPT !.pc = "vote_delete_old"])
    /\ UNCHANGED <<db, used>>

\* update_one(dealer_offers, {id: old_offer_id}, $inc votes -1)
vote_dec_old(p) ==
    /\ proc[p].pc = "vote_dec_old"
    /\ offers' = [offers EXCEPT ![proc[p].eo] = IncVotes(@, -1)]
    /\ WriteStep(p, [proc[p] EXCEPT !.pc = "vote_delete_old"])
    /\ UNCHANGED <<groups, nextGid, payments, members, prefs, votes, nextVid, used>>

\* vote_for_offer keeping the old Vote record
vote_delete_old_kept(p) ==
    /\ proc[p].pc = "vote_delete_old"
    /\ WriteStep(p, [proc[p] EXCEPT !.pc = "vote_insert"])
    /\ UNCHANGED <<db, used>>

\* delete_one(votes, {id: existing_vote.id}): nothing when already deleted
vote_delete_old(p) ==
    /\ proc[p].pc = "vote_delete_old"
    /\ votes' = [v \in DOMAIN votes \ {proc[p].ev} |-> votes[v]]
    /\ WriteStep(p, [proc[p] EXCEPT !.pc = "vote_insert"])
    /\ UNCHANGED <<groups, nextGid, payments, members, prefs, offers, nextVid, used>>

\* insert_one(votes, Vote(user_id, offer_id, group_id))
vote_insert(p) ==
    /\ proc[p].pc = "vote_insert"
    /\ votes' = (nextVid :> [u |-> proc[p].u, o |-> proc[p].o,
                              g |-> proc[p].g]) @@ votes
    /\ nextVid' = nextVid + 1
    /\ WriteStep(p, [proc[p] EXCEPT !.pc = "vote_inc"])
    /\ UNCHANGED <<groups, nextGid, payments, members, prefs, offers, used>>

\* update_one(dealer_offers, {id: offer_id}, $inc votes 1); 200
vote_inc(p) ==
    /\ proc[p].pc = "vote_inc"
    /\ offers' = [offers EXCEPT ![proc[p].o] = IncVotes(@, 1)]
    /\ WriteStep(p, [Idle EXCEPT !.op = "vote", !.u = proc[p].u, !.g = proc[p].g,
                                 !.o = proc[p].o, !.res = "ok",
                                 !.snap = proc[p].snap])
    /\ UNCHANGED <<groups, nextGid, payments, members, prefs, votes, nextVid, used>>

\* -------------------------------------------------------- get_group_offers
\* find(dealer_offers, {group_id}): the offers of the group with their tallies
OffersView(g) == [o \in OffersOf(g) |-> offers[o].votes]

get_group_offers(p) ==
    /\ Free(p)
    /\ \E g \in TargetGids :
         Step(p, [Idle EXCEPT !.op = "list_offers", !.g = g,
                              !.view = OffersView(g), !.res = "ok"])
    /\ UNCHANGED <<db, used>>

\* ----------------------------------------------------- get_group_analytics
\* find_one(groups): 404 when absent
analytics_find_group(p) ==
    /\ Free(p)
    /\ \E g \in TargetGids :
         IF g \notin DOMAIN groups
         THEN Return(p, "analytics", 0, g, 0, "NotFound", 0)
         ELSE Step(p, [Idle EXCEPT !.op = "analytics",
                                   !.pc = "analytics_count_members", !.g = g,
                                   !.cm = groups[g].cm, !.mx = groups[g].max,
                                   !.st = groups[g].status])
    /\ UNCHANGED <<db, used>>

\* count_documents(group_members, {group_id})
analytics_count_members(p) ==
    /\ proc[p].pc = "analytics_count_members"
    /\ proc' = [proc EXCEPT ![p].pc = "analytics_find_offers",
                            ![p].mc = SumOver(members, {proc[p].g} \X Users)]
    /\ UNCHANGED <<db, used>>

\* find(dealer_offers, {group_id})
analytics_find_offers(p) ==
    /\ proc[p].pc = "analytics_find_offers"
    /\ proc' = [proc EXCEPT ![p].pc = "analytics_count_votes",
                            ![p].view = OffersView(proc[p].g)]
    /\ UNCHANGED <<db, used>>

\* count_documents(votes, {group_id}); 200 with the four parts read
analytics_count_votes(p) ==
    /\ proc[p].pc = "analytics_count_votes"
    /\ proc' = [proc EXCEPT ![p].pc = "done", ![p].res = "ok",
                            ![p].ret = Cardinality(VotesIn(proc[p].g))]
    /\ UNCHANGED <<db, used>>

\* ------------------------------------------------------ save_car_preference
\* history: the slots serving a request of user u that writes u's preference
\* records of group g
PrefWritersInFlight(u, g) ==
    {q \in Procs : /\ proc[q].pc # "done"
                   /\ proc[q].op \in {"save", "join"}
                   /\ proc[q].u = u /\ proc[q].g = g}

\* find_one(group_members): 403 unless the user is a member of the group
save_find_member(p) ==
    /\ Free(p)
    /\ \E u \in Users, g \in TargetGids, c \in Choices :
         /\ SumOver(used.save, DOMAIN used.save) < MaxSaves
         /\ used' = [used EXCEPT !.save[<<u, g>>] = @ + 1]
         /\ IF members[<<g, u>>] = 0
            THEN Return(p, "save", u, g, 0, "Forbidden", 0)
            ELSE Step(p, [Idle EXCEPT !.op = "save", !.pc = "save_find_pref",
                                      !.u = u, !.g = g, !.ch = c,
                                      !.nth = used.save[<<u, g>>] + 1,
                                      !.ov = PrefWritersInFlight(u, g) \ {p}])
    /\ UNCHANGED db

\* find_one(car_preferences, {group_id, user_id}): any one of the user's
\* records of the group.  Without one the handler builds
\* CarPreference(user_id, group_id, user_name, car_model, variant): the
\* required fields transmission and on_road_price are missing, the constructor
\* raises and the request ends in a 500 before insert_one is reached.
save_find_pref(p) ==
    /\ proc[p].pc = "save_find_pref"
    /\ LET mine == prefs[<<proc[p].u, proc[p].g>>] IN
         IF mine = << >>
         THEN Finish(p, "ServerError", 0)
         ELSE \E i \in 1..Len(mine) :
                proc' = [proc EXCEPT ![p].pc = "save_update", ![p].ev = i]
    /\ UNCHANGED <<db, used>>

\* $set of the update path: car_model and variant only
SavedOver(pref, c) == [pref EXCEPT !.model = c.model, !.variant = c.variant]

\* update_one(car_preferences, {id: existing_pref.id}, $set ...); 200
save_update(p) ==
    /\ proc[p].pc = "save_update"
    /\ prefs' = [prefs EXCEPT ![<<proc[p].u, proc[p].g>>][proc[p].ev] =
                                 SavedOver(@, proc[p].ch)]
    /\ Finish(p, "ok", 0)
    /\ UNCHANGED <<groups, nextGid, payments, members, offers, votes, nextVid, used>>

\* -------------------------------------------------------- get_my_preference
\* find_one(car_preferences, {group_id, user_id}): one record, or None
get_my_preference(p) ==
    /\ Free(p)
    /\ \E u \in Users, g \in TargetGids :
         LET mine == prefs[<<u, g>>] IN
         IF mine = << >>
         THEN Step(p, [Idle EXCEPT !.op = "get_mine", !.u = u, !.g = g,
                                   !.res = "ok"])
         ELSE \E i \in 1..Len(mine) :
                Step(p, [Idle EXCEPT !.op = "get_mine", !.u = u, !.g = g,
                                     !.view = <<mine[i]>>, !.res = "ok"])
    /\ UNCHANGED <<db, used>>

\* ---------------------------------------------------------- specification
\* Every route of api_router that reads or writes the collections above,
\* served concurrently.
Next ==
    \E p \in Procs :
        \/ create_group(p)
        \/ pay_find_group(p) \/ pay_priced(p)
        \/ pay_find_payment(p) \/ pay_insert(p)
        \/ join_find_payment(p) \/ join_find_group(p) \/ join_find_member(p)
        \/ join_insert_member(p) \/ join_insert_pref(p) \/ join_update_group(p)
        \/ save_find_member(p) \/ save_find_pref(p) \/ save_update(p)
        \/ get_my_preference(p)
        \/ offer_find_group(p) \/ offer_insert(p) \/ offer_update_group(p)
        \/ get_group_offers(p)
        \/ analytics_find_group(p) \/ analytics_count_members(p)
        \/ analytics_find_offers(p) \/ analytics_count_votes(p)
        \/ vote_find_offer(p) \/ vote_find_member(p) \/ vote_find_vote(p)
        \/ vote_dec_old(p) \/ vote_delete_old(p)
        \/ vote_insert(p) \/ vote_inc(p)
        \/ seed_count(p) \/ seed_upsert(p)

Spec == Init /\ [][Next]_vars

\* The application when clients send only create_group, pay_for_group,
\* join_group, create_dealer_offer and seed_initial_data requests.  Every
\* step of NextGroups is a step of Next, so every behaviour of SpecGroups is
\* a behaviour of Spec.
NextGroups ==
    \E p \in Procs :
        \/ create_group(p)
        \/ pay_find_group(p) \/ pay_find_payment(p) \/ pay_insert(p)
        \/ join_find_payment(p) \/ join_find_group(p) \/ join_find_member(p)
        \/ join_insert_member(p) \/ join_insert_pref(p) \/ join_update_group(p)
        \/ offer_find_group(p) \/ offer_insert(p) \/ offer_update_group(p)
        \/ seed_count(p) \/ seed_upsert(p)

SpecGroups == Init /\ [][NextGroups]_vars

\* The whole application (every step of Next) from three stages of a group's
\* life, each with the requests the server may still serve; the requests
\* already counted are ones it has served or refused.
\* save_car_preference requests all counted
AllSaves ==
    [k \in Users \X TargetGids |-> IF k[1] = NumUsers THEN MaxSaves ELSE 0]
\* all but one save_car_preference request counted
OneSaveLeft ==
    [k \in Users \X TargetGids |-> IF k[1] = NumUsers THEN MaxSaves - 1 ELSE 0]

\* the empty database: one create_group and one seed_initial_data request to
\* come, and one pay_for_group (j = 0) or one create_dealer_offer (j = 1)
\* request (the requests refused so far wrote nothing)
StageEmpty ==
    \E j \in 0..1 :
        /\ groups = << >>
        /\ nextGid = 1
        /\ payments = [k \in Users \X TargetGids |-> << >>]
        /\ members = [k \in TargetGids \X Users |-> 0]
        /\ prefs = [k \in Users \X TargetGids |-> << >>]
        /\ offers = << >>
        /\ votes = << >>
        /\ nextVid = 1
        /\ proc = [p \in Procs |-> Idle]
        /\ used = [create |-> 0, pay |-> MaxPays - 1 + j, join |-> MaxJoins,
                   offer |-> MaxOffers - j, seed |-> 0, vote |-> MaxVotes,
                   save |-> AllSaves]

\* a created group that user 1 has paid for and joined (of capacity 2 and
\* forming, or of capacity 1 and locked): one pay_for_group, one join_group
\* and MaxOffers create_dealer_offer requests to come
StageJoined ==
    \E m \in 1..MaxCapacity :
        /\ groups = (1 :> JoinUpdate(NewGroup("Other", m, "create_group"), 0, m))
        /\ nextGid = 2
        /\ payments = [k \in Users \X TargetGids |->
                          IF k[1] = 1 /\ k[2] = 1
                          THEN <<NewPayment(PayChoice)>> ELSE << >>]
        /\ members = [k \in TargetGids \X Users |->
                         IF k[2] = 1 /\ k[1] = 1 THEN 1 ELSE 0]
        /\ prefs = [k \in Users \X TargetGids |->
                       IF k[1] = 1 /\ k[2] = 1 THEN <<PayChoice>> ELSE << >>]
        /\ offers = << >>
        /\ votes = << >>
        /\ nextVid = 1
        /\ proc = [p \in Procs |-> Idle]
        /\ used = [create |-> MaxCreates, pay |-> MaxPays - 1,
                   join |-> MaxJoins - 1, offer |-> 0, seed |-> MaxSeeds,
                   vote |-> MaxVotes, save |-> AllSaves]

\* a filled group in negotiation with MaxOffers offers, every user having
\* paid for it: two vote_for_offer requests to come (j = 0), or one
\* vote_for_offer and one join_group request (j = 1), or one
\* save_car_preference request (j = 2)
StageOffered ==
    \E m \in 1..MaxCapacity, j \in 0..2 :
        /\ groups = (1 :> [NewGroup("Other", m, "create_group") EXCEPT
                              !.cm = m, !.status = "negotiation"])
        /\ nextGid = 2
        /\ payments = [k \in Users \X TargetGids |->
                          IF k[2] = 1
                          THEN <<NewPayment(PayChoice)>> ELSE << >>]
        /\ members = [k \in TargetGids \X Users |->
                         IF k[2] <= m /\ k[1] = 1 THEN 1 ELSE 0]
        /\ prefs = [k \in Users \X TargetGids |->
                       IF k[1] <= m /\ k[2] = 1 THEN <<PayChoice>> ELSE << >>]
        /\ offers = [o \in OfferIds |-> NewOffer(1)]
        /\ votes = << >>
        /\ nextVid = 1
        /\ proc = [p \in Procs |-> Idle]
        /\ used = [create |-> MaxCreates, pay |-> MaxPays,
                   join |-> IF j = 1 THEN MaxJoins - 1 ELSE MaxJoins,
                   offer |-> MaxOffers, seed |-> MaxSeeds,
                   vote |-> MaxVotes - 2 + j,
                   save |-> IF j = 2 THEN OneSaveLeft ELSE AllSaves]

StageInit == StageEmpty \/ StageJoined \/ StageOffered

SpecStages == StageInit /\ [][Next]_vars

\* The voting handlers, from the states a group reaches once it has filled
\* (its first max_members users paid and joined) and every create_dealer_offer
\* request served was for it.
VoteInitOne ==
    \E m \in 1..MaxCapacity :
        /\ groups = (1 :> [NewGroup("Other", m, "create_group") EXCEPT
                              !.cm = m, !.status = "negotiation"])
        /\ nextGid = 2
        /\ payments = [k \in Users \X TargetGids |->
                          IF k[1] <= m /\ k[2] = 1
                          THEN <<NewPayment(PayChoice)>> ELSE << >>]
        /\ members = [k \in TargetGids \X Users |->
                         IF k[2] <= m /\ k[1] = 1 THEN 1 ELSE 0]
        /\ prefs = [k \in Users \X TargetGids |->
                       IF k[1] <= m /\ k[2] = 1 THEN <<PayChoice>> ELSE << >>]
        /\ offers = [o \in OfferIds |-> NewOffer(1)]
        /\ votes = << >>
        /\ nextVid = 1
        /\ proc = [p \in Procs |-> Idle]
        /\ used = [create |-> 1, pay |-> m, join |-> m, offer |-> MaxOffers,
                   seed |-> 0, vote |-> 0, save |-> NoSaves]

\* Two groups of one member each (user 1 in group 1, user 2 in group 2), both
\* filled and given offers: the offers alternate between the two groups.
VoteGids == 1..2
VoteInitTwo ==
    /\ groups = (1 :> [NewGroup("Other", 1, "create_group") EXCEPT
                          !.cm = 1, !.status = "negotiation"])
                @@ (2 :> [NewGroup("Tata", 1, "create_group") EXCEPT
                             !.cm = 1, !.status = "negotiation"])
    /\ nextGid = 3
    /\ payments = [k \in Users \X VoteGids |->
                      IF k[1] = k[2] THEN <<NewPayment(PayChoice)>> ELSE << >>]
    /\ members = [k \in VoteGids \X Users |-> IF k[1] = k[2] THEN 1 ELSE 0]
    /\ prefs = [k \in Users \X VoteGids |->
                   IF k[1] = k[2] THEN <<PayChoice>> ELSE << >>]
    /\ offers = [o \in OfferIds |-> NewOffer(2 - (o % 2))]
    /\ votes = << >>
    /\ nextVid = 1
    /\ proc = [p \in Procs |-> Idle]
    /\ used = [create |-> 2, pay |-> 2, join |-> 2, offer |-> MaxOffers,
               seed |-> 0, vote |-> 0, save |-> NoSaves]

VoteInit == VoteInitOne \/ VoteInitTwo

\* The preference handlers, from the state of a forming group of capacity 2
\* that user 1 has paid for and joined and user 2 has paid for.
PrefInit ==
    /\ groups = (1 :> [NewGroup("Other", 2, "create_group") EXCEPT !.cm = 1])
    /\ nextGid = 2
    /\ payments = [k \in Users \X TargetGids |->
                      IF k[1] <= 2 /\ k[2] = 1
                      THEN <<NewPayment(PayChoice)>> ELSE << >>]
    /\ members = [k \in TargetGids \X Users |->
                     IF k[2] = 1 /\ k[1] = 1 THEN 1 ELSE 0]
    /\ prefs = [k \in Users \X TargetGids |->
                   IF k[1] = 1 /\ k[2] = 1 THEN <<PayChoice>> ELSE << >>]
    /\ offers = << >>
    /\ votes = << >>
    /\ nextVid = 1
    /\ proc = [p \in Procs |-> Idle]
    /\ used = [create |-> 1, pay |-> 2, join |-> 1, offer |-> 0,
               seed |-> 0, vote |-> 0, save |-> NoSaves]

NextPref ==
    \E p \in Procs :
        \/ join_find_payment(p) \/ join_find_group(p) \/ join_find_member(p)
        \/ join_insert_member(p) \/ join_insert_pref(p) \/ join_update_group(p)
        \/ save_find_member(p) \/ save_find_pref(p) \/ save_update(p)
        \/ get_my_preference(p)

SpecPref == PrefInit /\ [][NextPref]_vars

\* The payment handler with declared prices, from the state after one
\* create_group.
FeeInit ==
    /\ groups = (1 :> NewGroup("Other", MaxCapacity, "create_group"))
    /\ nextGid = 2
    /\ payments = [k \in Users \X TargetGids |-> << >>]
    /\ members = [k \in TargetGids \X Users |-> 0]
    /\ prefs = [k \in Users \X TargetGids |-> << >>]
    /\ offers = << >>
    /\ votes = << >>
    /\ nextVid = 1
    /\ proc = [p \in Procs |-> Idle]
    /\ used = [create |-> 1, pay |-> 0, join |-> 0, offer |-> 0,
               seed |-> 0, vote |-> 0, save |-> NoSaves]

NextFee ==
    \E p \in Procs :
        pay_priced(p) \/ pay_find_payment(p) \/ pay_insert(p)

SpecFee == FeeInit /\ [][NextFee]_vars

\* The handlers of the group scenario (create_group, pay_for_group,
\* join_group, create_dealer_offer, vote_for_offer, get_group_offers,
\* get_group_analytics) served one request at a time, all in the first slot:
\* a request arrives only when every earlier request has returned.  Every
\* step of NextSeq is a step of Next.
Quiet == \A p \in Procs : Free(p)

NextSeq ==
    \E p \in Procs :
        \/ /\ Quiet /\ p = 1
           /\ \/ create_group(p) \/ pay_find_group(p) \/ join_find_payment(p)
              \/ offer_find_group(p) \/ vote_find_offer(p)
              \/ get_group_offers(p) \/ analytics_find_group(p)
        \/ pay_find_payment(p) \/ pay_insert(p)
        \/ join_find_group(p) \/ join_find_member(p) \/ join_insert_member(p)
        \/ join_insert_pref(p) \/ join_update_group(p)
        \/ offer_insert(p) \/ offer_update_group(p)
        \/ vote_find_member(p) \/ vote_find_vote(p) \/ vote_dec_old(p)
        \/ vote_delete_old(p) \/ vote_insert(p) \/ vote_inc(p)
        \/ analytics_count_members(p) \/ analytics_find_offers(p)
        \/ analytics_count_votes(p)

SpecSeq == Init /\ [][NextSeq]_vars

\* The join handler alone, from the state of a created group of the largest
\* capacity that every user has paid for.  A request that has arrived is run
\* to its end by the event loop (weak fairness of its steps); nothing obliges
\* a client to send a further request.
JoinInit ==
    /\ groups = (1 :> NewGroup("Other", MaxCapacity, "create_group"))
    /\ nextGid = 2
    /\ payments = [k \in Users \X TargetGids |->
                      IF k[2] = 1 THEN <<NewPayment(PayChoice)>> ELSE << >>]
    /\ members = [k \in TargetGids \X Users |-> 0]
    /\ prefs = [k \in Users \X TargetGids |-> << >>]
    /\ offers = << >>
    /\ votes = << >>
    /\ nextVid = 1
    /\ proc = [p \in Procs |-> Idle]
    /\ used = [create |-> 1, pay |-> NumUsers, join |-> 0, offer |-> 0,
               seed |-> 0, vote |-> 0, save |-> NoSaves]

JoinRuns ==
    \E p \in Procs :
        \/ join_find_group(p) \/ join_find_member(p) \/ join_insert_member(p)
        \/ join_insert_pref(p) \/ join_update_group(p)

NextJoin == (\E p \in Procs : join_find_payment(p)) \/ JoinRuns

SpecJoinFair == JoinInit /\ [][NextJoin]_vars /\ WF_vars(JoinRuns)

NextVote ==
    \E p \in Procs :
        \/ vote_find_offer(p) \/ vote_find_member(p) \/ vote_find_vote(p)
        \/ vote_dec_old(p) \/ vote_delete_old(p)
        \/ vote_insert(p) \/ vote_inc(p)
        \/ get_group_offers(p)
        \/ analytics_find_group(p) \/ analytics_count_members(p)
        \/ analytics_find_offers(p) \/ analytics_count_votes(p)

SpecVote == VoteInit /\ [][NextVote]_vars

\* The voting handlers when no user has two vote requests in flight at once:
\* a vote request arrives only if no other request in flight is a vote of the
\* same user (the requests of different users overlap freely).
OwnVotesInFlight(p) ==
    {q \in Procs \ {p} : /\ proc[q].op = "vote" /\ proc[q].pc # "done"
                          /\ proc[q].u = proc'[p].u}

NextVoteApart ==
    \E p \in Procs :
        \/ vote_find_offer(p) /\ OwnVotesInFlight(p) = {}
        \/ vote_find_member(p) \/ vote_find_vote(p)
        \/ vote_dec_old(p) \/ vote_delete_old(p)
        \/ vote_insert(p) \/ vote_inc(p)
        \/ get_group_offers(p)
        \/ analytics_find_group(p) \/ analytics_count_members(p)
        \/ analytics_find_offers(p) \/ analytics_count_votes(p)

SpecVoteApart == VoteInit /\ [][NextVoteApart]_vars

\* ------------------------------------------------------------------ claims
\* Membership records of group g (requests reach only the ids in TargetGids)
MemberCount(g) ==
    IF g \in TargetGids THEN SumOver(members, {g} \X Users) ELSE 0

\* C1: in every reachable state, every group's stored current_members equals
\* the number of Membership records whose group_id is the group's.
C1_CounterEqualsRoster ==
    \A g \in DOMAIN groups : groups[g].cm = MemberCount(g)

\* two slots hold the join requests of two distinct users, paid and no members
\* on arrival, that arrived at the same group with exactly one slot left and
\* were in flight together
LastSlotRace(p, q) ==
    /\ p # q
    /\ proc[p].op = "join" /\ proc[q].op = "join"
    /\ proc[p].g = proc[q].g /\ proc[p].u # proc[q].u
    /\ proc[p].res # "PaymentRequired" /\ proc[q].res # "PaymentRequired"
    /\ proc[p].nm /\ proc[q].nm
    /\ proc[p].left = 1 /\ proc[q].left = 1
    /\ q \in proc[p].ov /\ p \in proc[q].ov

\* C2: two concurrent joins of distinct paid non-members on a group with one
\* slot left: once both have returned, exactly one succeeded, the other got
\* GroupFull, and current_members = max_members.
C2_LastSlotOneWinner ==
    \A p, q \in Procs :
        (LastSlotRace(p, q) /\ proc[p].pc = "done" /\ proc[q].pc = "done") =>
            /\ {proc[p].res, proc[q].res} = {"ok", "GroupFull"}
            /\ proc[p].g \in DOMAIN groups
            /\ groups[proc[p].g].cm = groups[proc[p].g].max

\* C3: every group created through create_group (and since written only by
\* join and the status flip of create_dealer_offer) has
\* 0 <= current_members <= max_members.
C3_CounterWithinCapacity ==
    \A g \in DOMAIN groups :
        groups[g].by = "create_group" =>
            (0 <= groups[g].cm /\ groups[g].cm <= groups[g].max)

\* C4: in every reachable state, a group's status is locked, negotiation or
\* completed if and only if current_members = max_members.
C4_LockedIffFull ==
    \A g \in DOMAIN groups :
        (groups[g].status \in {"locked", "negotiation", "completed"})
            <=> (groups[g].cm = groups[g].max)

\* C5: no step moves the status of a group backwards along
\* forming -> locked -> negotiation -> completed.
C5_StatusMonotonic ==
    [][\A g \in DOMAIN groups \cap DOMAIN groups' :
          StatusRank(groups'[g].status) >= StatusRank(groups[g].status)]_vars

\* the users that have a Vote record in group g
Voters(g) == {votes[v].u : v \in VotesIn(g)}

\* C6: in every reachable state, for every group that has offers, the sum of
\* its offers' tallies equals the number of distinct users with a Vote in it.
C6_TallySumEqualsVoters ==
    \A g \in DOMAIN groups :
        OffersOf(g) # {} =>
            SumOver(Tallies, OffersOf(g)) = Cardinality(Voters(g))

\* C7: no offer's tally is negative in any reachable state.
C7_TallyNonNegative ==
    \A o \in DOMAIN offers : offers[o].votes >= 0

\* slot p serves (or served) a vote for offer b by a member who held one Vote
\* record in the group, pointing at another offer a, when the request arrived,
\* and no other request has written a tally or a Vote record since
SwitchOf(p, a, b) ==
    /\ proc[p].op = "vote" /\ proc[p].o = b /\ a # b
    /\ proc[p].snap.ok
    /\ members[<<proc[p].g, proc[p].u>>] > 0
    /\ a \in DOMAIN proc[p].snap.mine
    /\ proc[p].snap.mine[a] = 1
    /\ \A x \in DOMAIN proc[p].snap.mine : x # a => proc[p].snap.mine[x] = 0

\* C8: a member whose single Vote record points at offer a and who completes,
\* uninterfered, a vote for another offer b of the group: a's tally is one
\* lower, b's one higher, the sum of the group's tallies unchanged, and the
\* user's single Vote record points at b.
C8_SwitchMovesVote ==
    \A p \in Procs : \A a, b \in DOMAIN offers :
        (SwitchOf(p, a, b) /\ proc[p].pc = "done" /\ proc[p].res = "ok") =>
            LET g == proc[p].g
                before == proc[p].snap.tally
            IN  /\ offers[a].votes = before[a] - 1
                /\ offers[b].votes = before[b] + 1
                /\ SumOver(Tallies, OffersOf(g)) = SumOver(before, OffersOf(g))
                /\ \E v \in DOMAIN votes :
                     VotesOf(proc[p].u, g) = {v} /\ votes[v].o = b

\* C8's case: a switch from one offer to another has completed uninterfered
C8_Witness ==
    \E p \in Procs : \E a, b \in DOMAIN offers :
        /\ SwitchOf(p, a, b) /\ proc[p].pc = "done" /\ proc[p].res = "ok"
        /\ proc[p].snap.tally[a] = 1 /\ offers[a].votes = 0

\* slot r reads the offers of a group in this step (list_offers, or the
\* offers part of the analytics snapshot)
ReadsOffers(r) == get_group_offers(r) \/ analytics_find_offers(r)

\* C9: a reader never sees a vote switch half done: while an uninterfered
\* switch from a to b is in flight, every read of the offers returns the
\* tallies of before the switch or those of after it (the vote counted in
\* exactly one of a and b).
C9_SwitchAtomicForReaders ==
    [][\A r, p \in Procs : \A a, b \in DOMAIN offers :
          (ReadsOffers(r) /\ SwitchOf(p, a, b) /\ proc[p].pc # "done"
             /\ proc'[r].g = proc[p].g) =>
              LET before == proc[p].snap.tally
                  seen == proc'[r].view
              IN  \/ seen[a] = before[a] /\ seen[b] = before[b]
                  \/ seen[a] = before[a] - 1 /\ seen[b] = before[b] + 1]_vars

\* C10: in every reachable state there is at most one Vote record per
\* (user, group) pair.
C10_OneVotePerUserGroup ==
    \A u \in Users : \A g \in DOMAIN groups : Cardinality(VotesOf(u, g)) <= 1

\* C11: in every reachable state there is at most one Membership record per
\* (group, user) pair.
C11_OneMembershipPerPair ==
    \A k \in DOMAIN members : members[k] <= 1

\* C12: in every reachable state there is at most one Payment record per
\* (user, group) pair.
C12_OnePaymentPerPair ==
    \A k \in DOMAIN payments : Len(payments[k]) <= 1

\* C15: a join that reads a group with current_members >= max_members fails
\* with GroupFull, and no Membership record is inserted for a group whose
\* status is already locked, negotiation or completed.
C15_NoJoinAfterLock ==
    [][\A p \in Procs :
          /\ (join_find_group(p) /\ proc[p].g \in DOMAIN groups
                 /\ groups[proc[p].g].cm >= groups[proc[p].g].max) =>
                (proc'[p].pc = "done" /\ proc'[p].res = "GroupFull")
          /\ (join_insert_member(p) /\ proc[p].g \in DOMAIN groups) =>
                groups[proc[p].g].status = "forming"]_vars

\* C13: Payment records are never removed, and a pay request that arrives
\* when a Payment of its user for its group exists (a pay that completed
\* earlier) and finds the group never inserts a Payment and ends with
\* AlreadyPaid.
C13_SecondPayRejected ==
    /\ [](\A p \in Procs :
            (proc[p].op = "pay" /\ proc[p].had) =>
                /\ proc[p].pc # "pay_insert"
                /\ proc[p].pc = "done" => proc[p].res = "AlreadyPaid")
    /\ [][\A k \in DOMAIN payments :
            Len(payments'[k]) >= Len(payments[k])]_vars

C13_Witness ==
    \E p \in Procs :
        /\ proc[p].op = "pay" /\ proc[p].had /\ proc[p].pc = "done"
        /\ proc[p].res = "AlreadyPaid"
        /\ Len(payments[<<proc[p].u, proc[p].g>>]) = 1

\* C14: a join by a user with no Payment for the group fails with
\* PaymentRequired and writes nothing, and every Membership record has a
\* Payment record of the same user for the same group.
C14_JoinNeedsPayment ==
    /\ [](\A k \in DOMAIN members :
            members[k] > 0 => payments[<<k[2], k[1]>>] # << >>)
    /\ [][\A p \in Procs :
            (join_find_payment(p)
               /\ payments[<<proc'[p].u, proc'[p].g>>] = << >>) =>
                 /\ proc'[p].pc = "done" /\ proc'[p].res = "PaymentRequired"
                 /\ UNCHANGED db]_vars

C14_Witness ==
    \E p \in Procs :
        /\ proc[p].op = "join" /\ proc[p].res = "PaymentRequired"
        /\ payments[<<proc[p].u, proc[p].g>>] = << >>
        /\ members[<<proc[p].g, proc[p].u>>] = 0
        /\ \E k \in DOMAIN members : members[k] > 0

\* C16: a create_offer request that finds its group stored with a status other
\* than locked returns InvalidState at once, inserts no DealerOffer and leaves
\* every group as it was.
C16_OfferNeedsLocked ==
    [][\A p \in Procs :
          (offer_find_group(p) /\ proc'[p].g \in DOMAIN groups
             /\ groups[proc'[p].g].status # "locked") =>
               /\ proc'[p].pc = "done" /\ proc'[p].res = "InvalidState"
               /\ offers' = offers /\ groups' = groups]_vars

C16_Witness ==
    \E p \in Procs :
        /\ proc[p].op = "create_offer" /\ proc[p].res = "InvalidState"
        /\ proc[p].g \in DOMAIN groups
        /\ groups[proc[p].g].status = "negotiation"
        /\ Cardinality(OffersOf(proc[p].g)) = 1

\* C17: create_offer inserts its DealerOffer, tally 0, before it sets the
\* status: a request about to set the status, or returned successfully, has
\* its offer stored for its group; every DealerOffer enters the collection
\* with tally 0; a group in negotiation has at least one DealerOffer; no
\* DealerOffer's group is stored with status forming.
C17_OfferBeforeNegotiation ==
    /\ [](\A p \in Procs :
            (proc[p].op = "create_offer"
               /\ (proc[p].pc = "offer_update_group"
                     \/ (proc[p].pc = "done" /\ proc[p].res = "ok"))) =>
                 /\ proc[p].o \in DOMAIN offers
                 /\ offers[proc[p].o].g = proc[p].g)
    /\ [][\A o \in DOMAIN offers' \ DOMAIN offers :
            offers'[o] = NewOffer(offers'[o].g)]_vars
    /\ [](\A g \in DOMAIN groups :
            groups[g].status = "negotiation" => OffersOf(g) # {})
    /\ [](\A o \in DOMAIN offers :
            offers[o].g \in DOMAIN groups =>
                groups[offers[o].g].status \in {"locked", "negotiation", "completed"})

C17_Witness ==
    \E p \in Procs :
        /\ proc[p].op = "create_offer" /\ proc[p].pc = "done"
        /\ proc[p].res = "ok"
        /\ proc[p].g \in DOMAIN groups
        /\ groups[proc[p].g].status = "negotiation"
        /\ proc[p].o \in OffersOf(proc[p].g)

\* C20: a vote by a user with no Membership in the offer's group returns
\* Forbidden and changes no tally and no Vote record; only members get past
\* the check; each Vote record's user is a member of the record's group and
\* the record's offer belongs to that group.
C20_OnlyMembersVote ==
    /\ [](\A p \in Procs :
            proc[p].pc \in {"vote_find_vote", "vote_dec_old", "vote_delete_old",
                            "vote_insert", "vote_inc"} =>
                members[<<proc[p].g, proc[p].u>>] > 0)
    /\ [](\A v \in DOMAIN votes :
            /\ members[<<votes[v].g, votes[v].u>>] > 0
            /\ votes[v].o \in DOMAIN offers
            /\ offers[votes[v].o].g = votes[v].g)
    /\ [][\A p \in Procs :
            (vote_find_member(p) /\ members[<<proc[p].g, proc[p].u>>] = 0) =>
                /\ proc'[p].pc = "done" /\ proc'[p].res = "Forbidden"
                /\ offers' = offers /\ votes' = votes]_vars

C20_Witness ==
    \E p \in Procs :
        /\ proc[p].op = "vote" /\ proc[p].res = "Forbidden"
        /\ members[<<proc[p].g, proc[p].u>>] = 0
        /\ \E v \in DOMAIN votes :
              votes[v].u = proc[p].u /\ votes[v].g # proc[p].g

\* C18: when a member's second save_car_preference call for a group has
\* returned, both calls having run one after the other with no other request
\* of the user writing the preference meanwhile, get_my_preference returns one
\* record whose model, variant, transmission and price are the second call's,
\* and it is the user's only record for the group.
C18_SecondSaveWins ==
    [][\A p, q \in Procs :
          (/\ get_my_preference(p) /\ q # p
           /\ proc[q].op = "save" /\ proc[q].pc = "done"
           /\ proc[q].res # "Forbidden"
           /\ proc[q].u = proc'[p].u /\ proc[q].g = proc'[p].g
           /\ proc[q].nth = 2 /\ proc[q].ov = {}
           /\ used.save[<<proc[q].u, proc[q].g>>] = 2
           /\ PrefWritersInFlight(proc[q].u, proc[q].g) = {}) =>
              /\ proc'[p].view = <<proc[q].ch>>
              /\ Len(prefs[<<proc[q].u, proc[q].g>>]) = 1]_vars

\* C19: in every reachable state there is at most one CarPreference record per
\* (user, group) pair.
C19_OnePreferencePerPair ==
    \A k \in DOMAIN prefs : Len(prefs[k]) <= 1

\* C21: every create_group step that persists a group persists one with status
\* forming, current_members 0 and max_members greater than 0 (a request with
\* max_members of 0 or less persists nothing).
C21_CreateValidatesCapacity ==
    [][\A p \in Procs :
          (create_group(p) /\ nextGid \in DOMAIN groups') =>
              /\ groups'[nextGid].status = "forming"
              /\ groups'[nextGid].cm = 0
              /\ groups'[nextGid].max > 0]_vars

\* C22: the amount of every stored Payment, and the amount a successful pay
\* returns, is 1000 for a declared price up to 1,000,000, 2000 above that up
\* to 2,000,000, 3000 above that up to 3,000,000 and 5000 above: a function of
\* the price alone.
StatedFee(price) ==
    IF price <= 1000000 THEN 1000
    ELSE IF 1000000 < price /\ price <= 2000000 THEN 2000
    ELSE IF 2000000 < price /\ price <= 3000000 THEN 3000
    ELSE 5000

C22_FeeByPriceTier ==
    /\ \A k \in DOMAIN payments : \A i \in 1..Len(payments[k]) :
          payments[k][i].amount = StatedFee(payments[k][i].price)
    /\ \A p \in Procs :
          (proc[p].op = "pay" /\ proc[p].pc = "done" /\ proc[p].res = "ok") =>
              proc[p].ret = StatedFee(proc[p].ch.price)

C22_Witness ==
    \E p, q \in Procs :
        /\ proc[p].op = "pay" /\ proc[p].pc = "done" /\ proc[p].res = "ok"
        /\ proc[p].ch.price = 2000000 /\ proc[p].ret = 2000
        /\ proc[q].op = "pay" /\ proc[q].pc = "done" /\ proc[q].res = "ok"
        /\ proc[q].ch.price = 2000001 /\ proc[q].ret = 3000
        /\ \E k \in DOMAIN payments :
              payments[k] # << >> /\ payments[k][1].amount = 3000

\* the Vote records pointing at offer o, and the created groups of some capacity
VotesFor(o) == {v \in DOMAIN votes : votes[v].o = o}
CreatedGroups ==
    {g \in DOMAIN groups : groups[g].by = "create_group" /\ groups[g].max >= 1}

\* what the scenario observes after each request, for requests served one at
\* a time on a created group: a join returns the new count, equal to the stored
\* count and to the roster, and leaves the group forming below capacity and
\* locked at capacity; a vote leaves every tally equal to the Vote records
\* pointing at the offer and the voter with one Vote, for the offer voted; the
\* analytics snapshot reports the roster's size and the Vote records' number.
ScenarioObservations ==
    /\ [](Quiet =>
            \A g \in CreatedGroups :
                /\ groups[g].cm = MemberCount(g)
                /\ groups[g].cm <= groups[g].max
                /\ groups[g].status = "forming" <=> groups[g].cm < groups[g].max
                /\ \A o \in OffersOf(g) :
                      offers[o].votes = Cardinality(VotesFor(o))
                /\ \A u \in Users : Cardinality(VotesOf(u, g)) <= 1)
    /\ [][\A p \in Procs :
            /\ (join_update_group(p) /\ proc[p].g \in CreatedGroups) =>
                  LET g == proc[p].g IN
                  /\ proc'[p].ret = groups'[g].cm
                  /\ groups'[g].status =
                        IF proc'[p].ret >= groups[g].max THEN "locked"
                        ELSE "forming"
            /\ (offer_update_group(p) /\ proc[p].g \in CreatedGroups) =>
                  groups'[proc[p].g].status = "negotiation"
            /\ vote_inc(p) =>
                  /\ \A o \in DOMAIN offers :
                        offers'[o].votes = Cardinality({v \in DOMAIN votes' :
                                                          votes'[v].o = o})
                  /\ \E v \in DOMAIN votes' :
                        /\ {w \in DOMAIN votes' :
                              votes'[w].u = proc[p].u /\ votes'[w].g = proc[p].g}
                              = {v}
                        /\ votes'[v].o = proc[p].o
            /\ (analytics_count_votes(p) /\ proc[p].g \in CreatedGroups) =>
                  /\ proc'[p].mc = MemberCount(proc[p].g)
                  /\ proc'[p].ret = Cardinality(Voters(proc[p].g))]_vars

\* C23, as the code runs it: served one request at a time, the scenario's
\* observations hold, a group in negotiation has exactly one DealerOffer and a
\* group with any other status none, and a create_offer request for a group
\* that already has its offer returns InvalidState; so the scenario runs with
\* the one offer X (user1 votes X, votes X again, user2 votes X: tally 2).
C23_ScenarioOneOffer ==
    /\ ScenarioObservations
    /\ [](Quiet =>
            \A g \in CreatedGroups :
                Cardinality(OffersOf(g)) =
                    IF groups[g].status = "negotiation" THEN 1 ELSE 0)
    /\ [][\A p \in Procs :
            (offer_find_group(p) /\ OffersOf(proc'[p].g) # {}) =>
                (proc'[p].pc = "done" /\ proc'[p].res = "InvalidState")]_vars

C23_Witness ==
    \E p \in Procs :
        /\ proc[p].op = "analytics" /\ proc[p].pc = "done" /\ proc[p].res = "ok"
        /\ proc[p].g \in CreatedGroups /\ groups[proc[p].g].max = 2
        /\ proc[p].st = "negotiation"
        /\ proc[p].mc = 2 /\ proc[p].ret = 2
        /\ proc[p].view = (1 :> 2)
        /\ used.offer = 2 /\ used.vote = 3

\* C23, as stated: served one request at a time, the scenario's observations
\* hold and every create_offer request for a group that has filled (locked, or
\* in negotiation after its first offer) succeeds, so that a second offer Y of
\* the same group exists for user1 and user2 to vote.
C23_ScenarioAsStated ==
    /\ ScenarioObservations
    /\ [][\A p \in Procs :
            (offer_find_group(p) /\ proc'[p].g \in CreatedGroups
               /\ groups[proc'[p].g].cm = groups[proc'[p].g].max) =>
                 proc'[p].res # "InvalidState"]_vars

\* C24: whenever the Membership records of a group number its capacity (or
\* more), the group's status eventually is locked or later, with the requests
\* in flight run to their end and no further request needed.
C24_FullGroupLocks ==
    \A g \in TargetGids :
        (g \in DOMAIN groups /\ MemberCount(g) >= groups[g].max)
            ~> (g \in DOMAIN groups
                  /\ groups[g].status \in {"locked", "negotiation", "completed"})

\* C25: in every reachable state the number of Membership records of a group
\* does not exceed the group's max_members (stated for the groups whose
\* max_members is at least 1: the others are C21's case).
C25_RosterWithinCapacity ==
    \A g \in DOMAIN groups :
        groups[g].max >= 1 => MemberCount(g) <= groups[g].max

\* the error kinds of the handlers, and the positions of a request that has
\* written to a collection
ErrorKinds ==
    {"NotFound", "PaymentRequired", "GroupFull", "AlreadyMember", "AlreadyPaid",
     "Forbidden", "InvalidState"}
WrittenPcs ==
    {"join_insert_pref", "join_update_group", "offer_update_group",
     "vote_delete_old", "vote_insert", "vote_inc"}

\* the step is the arrival of a request in slot p, at a handler that can
\* refuse it
Arrives(p) ==
    \/ pay_find_group(p) \/ join_find_payment(p) \/ save_find_member(p)
    \/ offer_find_group(p) \/ vote_find_offer(p) \/ analytics_find_group(p)

\* C26: a request that ends in an error ends in a step that writes nothing and
\* has written nothing before: every step that changes a collection leaves
\* its request at a position after the write or returned without an error,
\* and a request at such a position never returns an error.
C26_ErrorsWriteNothing ==
    [][\A p \in Procs :
          /\ (proc'[p].pc = "done" /\ proc'[p].res \in ErrorKinds
                 /\ (proc[p].pc # "done" \/ Arrives(p))) =>
                (db' = db /\ proc[p].pc \notin WrittenPcs)
          /\ (proc[p].pc \in WrittenPcs /\ proc'[p].pc # proc[p].pc) =>
                \/ proc'[p].pc \in WrittenPcs
                \/ proc'[p].pc = "done" /\ proc'[p].res = "ok"
          /\ (db' # db /\ proc[p].pc # "done" /\ proc'[p].pc # proc[p].pc) =>
                \/ proc'[p].pc \in WrittenPcs
                \/ proc'[p].pc = "done" /\ proc'[p].res = "ok"]_vars

C26_Witness ==
    \E p, q \in Procs :
        /\ p # q
        /\ proc[p].op = "join" /\ proc[p].pc = "done"
        /\ proc[p].res = "GroupFull"
        /\ payments[<<proc[p].u, proc[p].g>>] # << >>
        /\ members[<<proc[p].g, proc[p].u>>] = 0
        /\ proc[q].op = "vote" /\ proc[q].pc = "done"
        /\ proc[q].res = "Forbidden" /\ proc[q].u = proc[p].u
        /\ offers # << >> /\ votes = << >>

\* slot p serves (or served) a vote for offer a by a member who held one Vote
\* record in the group, pointing at that same offer a, when the request
\* arrived, and no other request has written a tally or a Vote record since
RevoteOf(p, a) ==
    /\ proc[p].op = "vote" /\ proc[p].o = a
    /\ proc[p].snap.ok
    /\ members[<<proc[p].g, proc[p].u>>] > 0
    /\ a \in DOMAIN proc[p].snap.mine
    /\ proc[p].snap.mine[a] = 1
    /\ \A x \in DOMAIN proc[p].snap.mine : x # a => proc[p].snap.mine[x] = 0

\* C27: a member whose single Vote record points at offer a and who completes,
\* uninterfered, another vote for a: every offer's tally is what it was when
\* the request arrived and the user's single Vote record points at a.
C27_RevoteIdempotent ==
    \A p \in Procs : \A a \in DOMAIN offers :
        (RevoteOf(p, a) /\ proc[p].pc = "done" /\ proc[p].res = "ok") =>
            /\ Tallies = proc[p].snap.tally
            /\ \E v \in DOMAIN votes :
                  VotesOf(proc[p].u, proc[p].g) = {v} /\ votes[v].o = a

C27_Witness ==
    \E p \in Procs : \E a \in DOMAIN offers :
        /\ RevoteOf(p, a) /\ proc[p].pc = "done" /\ proc[p].res = "ok"
        /\ offers[a].votes = 1 /\ nextVid = 3
        /\ 2 \in VotesOf(proc[p].u, proc[p].g)

\* no vote request is in flight
VotesQuiet == \A p \in Procs : proc[p].op = "vote" => proc[p].pc = "done"

\* C28: when no two vote requests of one user overlap, in every state with no
\* vote request in flight the tallies of each group's offers sum to the number
\* of the group's Vote records, and each offer's tally is the number of Vote
\* records pointing at it.
C28_QuietTalliesMatchVotes ==
    VotesQuiet =>
        /\ \A g \in DOMAIN groups :
              SumOver(Tallies, OffersOf(g)) = Cardinality(VotesIn(g))
        /\ \A o \in DOMAIN offers :
              offers[o].votes = Cardinality(VotesFor(o))

C28_Witness ==
    /\ VotesQuiet
    /\ used.vote = MaxVotes
    /\ \E p, q \in Procs :
          /\ p # q
          /\ proc[p].op = "vote" /\ proc[p].res = "ok"
          /\ proc[q].op = "vote" /\ proc[q].res = "ok"
          /\ proc[p].u # proc[q].u /\ proc[p].o = proc[q].o
          /\ offers[proc[p].o].votes = 2
          /\ Cardinality(VotesFor(proc[p].o)) = 2

\* C29: in every reachable state each group has at most one DealerOffer.
C29_OneOfferPerGroup ==
    \A g \in DOMAIN groups : Cardinality(OffersOf(g)) <= 1

====
